---- MODULE Spec2Model ----
(***************************************************************************)
(* A model of src/src/nest/modules.py: the NestModule wrapper (definition  *)
(* checks, parameter resolution, deferred calls, clone) and the            *)
(* ModuleManager catalog (namespaces, file import with reload, throttled   *)
(* refresh, attribute and query lookups).                                  *)
(***************************************************************************)
EXTENDS Integers, Sequences, FiniteSets, TLC

VARIABLES
    objs,             \* heap of NestModule instances: object id -> [func, doc, params]
    ctxs,             \* heap of Context instances: context id -> state (0 empty, 1 written)
    hist,             \* ghost: object id -> how the instance was made
    ret,              \* ghost: the last operation and its outcome
    search_paths,     \* settings['SEARCH_PATHS']: sequence of [ns, path]
    dirs,             \* file system: the directories that exist
    files,            \* file system: path -> stem -> [content, mtime]
    namespaces,       \* ModuleManager.namespaces: sequence of [ns, module_path]
    sys_modules,      \* namespaces n with 'nest.<n>' in sys.modules
    py_modules,       \* ModuleManager.py_modules: unit id -> [timestamp, ids]
    nest_modules,     \* ModuleManager.nest_modules: sequence of [id, obj] (dict order)
    update_timestamp, \* ModuleManager.update_timestamp
    now,              \* datetime.now().timestamp()
    log,              \* ghost: what the last catalog operation executed and reported
    good,             \* ghost: unit id -> [mtime, ids] of its last successful execution
    archive,          \* the members of the zip file at the destination of _pack_namespaces
    installs          \* the last _install_namespaces_from_url: configs read, installers run

entry_vars == <<objs, ctxs, hist, ret>>
catalog_vars == <<search_paths, dirs, files, namespaces, sys_modules, py_modules,
                  nest_modules, update_timestamp, now, log, good, archive, installs>>
vars == <<objs, ctxs, hist, ret, search_paths, dirs, files, namespaces, sys_modules,
          py_modules, nest_modules, update_timestamp, now, log, good, archive, installs>>

(***************************************************************************)
(* Bounds of the model.                                                    *)
(***************************************************************************)
MaxObjs == 3

(***************************************************************************)
(* Values, dictionaries and small helpers.                                 *)
(***************************************************************************)
IntV(n) == [t |-> "int", v |-> n]
StrV(n) == [t |-> "str", v |-> n]
BoolV(n) == [t |-> "bool", v |-> n]
CtxV(n) == [t |-> "Context", v |-> n]
NoneV == [t |-> "none", v |-> 0]

EmptyDict == << >>
SetOfSeq(s) == {s[i] : i \in DOMAIN s}
DictOf(k, v) == [x \in {k} |-> v]
Without(d, k) == [x \in DOMAIN d \ {k} |-> d[x]]
Fresh(used) == CHOOSE n \in 1..(Cardinality(used) + 1) :
                  n \notin used /\ \A m \in 1..(n - 1) : m \in used

\* dict.get(k): None when the key is absent
dict_get(d, k) == IF k \in DOMAIN d THEN d[k] ELSE NoneV

\* U.merge_dict(dst, src, union=True): the keys of both, src winning
merge_dict(dst, src) ==
    [k \in DOMAIN dst \cup DOMAIN src |-> IF k \in DOMAIN src THEN src[k] ELSE dst[k]]

\* U.is_annotation_matched(value, annotation)
is_annotation_matched(val, anno) == val.t = anno

\* a parameter of a signature: inspect.Parameter (anno "empty": not annotated)
Param(k, anno) == [k |-> k, anno |-> anno, hasdef |-> FALSE, def |-> NoneV]
ParamDef(k, anno, def) == [k |-> k, anno |-> anno, hasdef |-> TRUE, def |-> def]

NoDoc == <<"None">>
ParamNames(func) == {func.params[i].k : i \in DOMAIN func.params}

(***************************************************************************)
(* NestModule                                                              *)
(***************************************************************************)

\* a mutant of NestModule_init: a context given in params is kept
NestModule_init_keeps_ctx(func, doc, params, fresh) ==
    LET p0 == merge_dict(EmptyDict, params)
        ps == func.params
        p1 == IF Len(ps) > 0 /\ ps[1].k = "ctx" /\ ps[1].anno = "Context"
                 /\ "ctx" \notin DOMAIN p0
              THEN merge_dict(p0, DictOf("ctx", CtxV(fresh)))
              ELSE p0
    IN  [func |-> func, doc |-> doc, params |-> p1]

\* NestModule.__init__ up to the definition check: the instance built from
\* func, the class documentation and params; fresh is the Context allocated
\* when the first parameter is the context parameter.
NestModule_init(func, doc, params, fresh) ==
    LET p0 == merge_dict(EmptyDict, params)
        ps == func.params
        p1 == IF Len(ps) > 0 /\ ps[1].k = "ctx" /\ ps[1].anno = "Context"
              THEN merge_dict(p0, DictOf("ctx", CtxV(fresh)))
              ELSE p0
    IN  [func |-> func, doc |-> doc, params |-> p1]

RECURSIVE check_definition_from(_, _)
check_definition_from(ps, i) ==
    IF i > Len(ps) THEN "ok"
    ELSE IF ps[i].anno = "empty" THEN "unannotated"
    ELSE IF ps[i].hasdef /\ ~is_annotation_matched(ps[i].def, ps[i].anno)
         THEN "default"
    ELSE check_definition_from(ps, i + 1)

\* NestModule._check_definition: "ok" or the error raised
check_definition(self) ==
    LET r == check_definition_from(self.func.params, 1)
    IN  IF r # "ok" THEN r
        ELSE IF self.func.ret = "empty" THEN "returns"
        ELSE IF self.doc = NoDoc THEN "doc"
        ELSE "ok"

RECURSIVE check_params_from(_, _, _)
check_params_from(ps, params, i) ==
    IF i > Len(ps) THEN "ok"
    ELSE LET resolved == dict_get(params, ps[i].k)
         IN  IF resolved = NoneV
             THEN IF ~ps[i].hasdef THEN "missing"
                  ELSE check_params_from(ps, params, i + 1)
             ELSE IF ~is_annotation_matched(resolved, ps[i].anno) THEN "type"
             ELSE check_params_from(ps, params, i + 1)

\* a mutant of check_params: unexpected keys are not looked for
check_params_no_unexpected(self, params) ==
    check_params_from(self.func.params, params, 1)

\* NestModule._check_params: "ok" or the error raised
check_params(self, params) ==
    IF DOMAIN params \ ParamNames(self.func) # {} THEN "unexpected"
    ELSE check_params_from(self.func.params, params, 1)

\* self.func(**resolved_params): the arguments the wrapped callable receives
CallArgs(func, resolved) ==
    [k \in ParamNames(func) |->
        IF k \in DOMAIN resolved THEN resolved[k]
        ELSE func.params[CHOOSE i \in DOMAIN func.params : func.params[i].k = k].def]

RECURSIVE Digest(_, _, _)
Digest(ps, callargs, i) ==
    IF i > Len(ps) THEN 0
    ELSE (IF ps[i].k = "ctx" THEN 0 ELSE i * callargs[ps[i].k].v)
         + Digest(ps, callargs, i + 1)

\* the value the wrapped callable computes from its arguments
Body(func, callargs) == IntV(Digest(func.params, callargs, 1))

Out(kind, err, val, callargs, params, invoked) ==
    [kind |-> kind, err |-> err, val |-> val, callargs |-> callargs,
     params |-> params, invoked |-> invoked]
Raise(err) == Out("error", err, NoneV, EmptyDict, EmptyDict, 0)
NoOut == Out("none", "", NoneV, EmptyDict, EmptyDict, 0)

Truthy(val) == val.t # "none" /\ val.v # 0

\* NestModule._check_returns after self.func(**resolved_params)
invoke_func(self, resolved) ==
    LET callargs == CallArgs(self.func, resolved)
        returns == Body(self.func, callargs)
    IN  IF ~is_annotation_matched(returns, self.func.ret)
        THEN Out("error", "return", NoneV, callargs, EmptyDict, 1)
        ELSE Out("value", "", returns, callargs, EmptyDict, 1)

\* the parameters positional arguments map onto: not bound, no default
expected_param_names(self) ==
    LET sel == SelectSeq(self.func.params,
                         LAMBDA d : d.k \notin DOMAIN self.params /\ ~d.hasdef)
    IN  [i \in 1..Len(sel) |-> sel[i].k]

\* NestModule.__call__, the positional part: the error raised or the keywords
bind_positional(self, args, kwargs) ==
    LET names == expected_param_names(self)
    IN  IF Len(args) = 0 THEN [err |-> "", kwargs |-> kwargs]
        ELSE IF Len(args) # Len(names) THEN [err |-> "positional", kwargs |-> kwargs]
        ELSE IF \E i \in DOMAIN args : names[i] \in DOMAIN kwargs
             THEN [err |-> "duplicate", kwargs |-> kwargs]
        ELSE [err |-> "",
              kwargs |-> merge_dict(kwargs,
                  [k \in SetOfSeq(names) |->
                      args[CHOOSE i \in DOMAIN names : names[i] = k]])]

\* a mutant of call: the deferred clone carries self.params only
call_forgets_kwargs(self, args, kwargs) ==
    LET b == bind_positional(self, args, kwargs)
        merged == merge_dict(merge_dict(EmptyDict, self.params), b.kwargs)
        delay == Truthy(dict_get(merged, "delay_resolve"))
        resolved == Without(merged, "delay_resolve")
        chk == check_params(self, resolved)
    IN  IF b.err # "" THEN Raise(b.err)
        ELSE IF delay
             THEN IF chk = "missing"
                  THEN Out("clone", "", NoneV, EmptyDict, self.params, 0)
                  ELSE IF chk # "ok" THEN Raise(chk)
                  ELSE invoke_func(self, resolved)
        ELSE IF chk # "ok" THEN Raise(chk)
        ELSE invoke_func(self, resolved)

\* NestModule.__call__: the outcome; kind "clone" stands for
\* self.clone(resolved_params), which the calling action allocates
call(self, args, kwargs) ==
    LET b == bind_positional(self, args, kwargs)
        merged == merge_dict(merge_dict(EmptyDict, self.params), b.kwargs)
        delay == Truthy(dict_get(merged, "delay_resolve"))
        resolved == Without(merged, "delay_resolve")
        chk == check_params(self, resolved)
    IN  IF b.err # "" THEN Raise(b.err)
        ELSE IF delay
             THEN IF chk = "missing"
                  THEN Out("clone", "", NoneV, EmptyDict, resolved, 0)
                  ELSE IF chk # "ok" THEN Raise(chk)
                  ELSE invoke_func(self, resolved)
        ELSE IF chk # "ok" THEN Raise(chk)
        ELSE invoke_func(self, resolved)

\* NestModule.clone: type(self)(self.func, self.meta, params)
clone(self, params, fresh) == NestModule_init(self.func, self.doc, params, fresh)

\* ModuleManager._register.create_module: the documentation of the new class
create_module_doc(func) ==
    IF func.doc # NoDoc THEN func.doc \o <<"\n">> ELSE NoDoc

\* ModuleManager._register.create_module: the new instance
create_module(func, fresh) == NestModule_init(func, create_module_doc(func), EmptyDict, fresh)

(***************************************************************************)
(* The callables offered for registration and the call inputs.             *)
(***************************************************************************)
Func(name, params, r, doc, site) ==
    [name |-> name, params |-> params, ret |-> r, doc |-> doc, site |-> site]

ParamLists ==
    { <<Param("a", "int"), ParamDef("b", "str", StrV(1))>>,
      <<Param("ctx", "Context"), Param("a", "int"), Param("b", "str")>>,
      <<Param("a", "empty"), ParamDef("b", "str", StrV(1))>>,
      <<Param("a", "int"), ParamDef("b", "str", IntV(1))>> }
Docs == {NoDoc, << >>, <<"d">>}
Callables ==
    {Func("f", ps, r, d, << >>) : ps \in ParamLists, r \in {"int", "str", "empty"}, d \in Docs}

\* keyword dictionaries of a call: a and b absent or given, a None, an unexpected c
KwDicts ==
    {merge_dict(x, y) :
        x \in {EmptyDict} \cup {DictOf("a", v) : v \in {IntV(1), StrV(2)}},
        y \in {EmptyDict, DictOf("b", StrV(2))}}
    \cup {DictOf("a", NoneV), DictOf("c", IntV(1)), [k \in {"a", "c"} |-> IntV(1)],
          DictOf("b", IntV(1))}
Flags == {EmptyDict, DictOf("delay_resolve", BoolV(1))}
Kwargs == {merge_dict(kw, fl) : kw \in KwDicts, fl \in Flags}
PosArgs == {<<IntV(1)>>, <<StrV(2)>>, <<IntV(1), StrV(2)>>}
PosKwargs == {EmptyDict, DictOf("a", IntV(1)), DictOf("delay_resolve", BoolV(1))}
\* the calls made: <<args, kwargs>>
Calls == {<<(<< >>), kw>> : kw \in Kwargs}
         \cup {<<args, kw>> : args \in PosArgs, kw \in PosKwargs}
CloneParams(self) == {EmptyDict, DictOf("a", IntV(1)), DictOf("b", StrV(2)), self.params}

\* ghost records: the last operation and its result, an object's origin
Ret(op, obj, func, args, kwargs, out, new) ==
    [op |-> op, obj |-> obj, func |-> func, args |-> args, kwargs |-> kwargs,
     out |-> out, new |-> new]
Hist(op, src, snap, given, args) ==
    [op |-> op, src |-> src, snap |-> snap, given |-> given, args |-> args]

(***************************************************************************)
(* Strings are sequences of characters; an absolute path is written by its *)
(* last component: the working directory w and the directories below it.   *)
(***************************************************************************)
MAIN == <<"m", "a", "i", "n">>
CWD == <<"w">>
FN == <<"f", "n">>
G == <<"g">>

startswith(s, prefix) == Len(s) >= Len(prefix) /\ SubSeq(s, 1, Len(prefix)) = prefix
Drop(s, n) == SubSeq(s, n + 1, Len(s))

RECURSIVE SplitFrom(_, _, _, _)
SplitFrom(s, sep, i, cur) ==
    IF i > Len(s) THEN <<cur>>
    ELSE IF s[i] = sep THEN <<cur>> \o SplitFrom(s, sep, i + 1, << >>)
    ELSE SplitFrom(s, sep, i + 1, Append(cur, s[i]))
\* str.split(sep)
split(s, sep) == SplitFrom(s, sep, 1, << >>)

\* U.encode_id(namespace, key) and U.decode_id(unique_id)
encode_id(namespace, key) == namespace \o <<".">> \o key
decode_id(uid) == split(uid, ".")

\* fnmatch.fnmatchcase for patterns of literals, ? and *
RECURSIVE fnmatch(_, _)
fnmatch(name, pat) ==
    IF Len(pat) = 0 THEN Len(name) = 0
    ELSE IF pat[1] = "*"
         THEN fnmatch(name, Tail(pat)) \/ (Len(name) > 0 /\ fnmatch(Tail(name), pat))
    ELSE /\ Len(name) > 0
         /\ (pat[1] = "?" \/ pat[1] = name[1])
         /\ fnmatch(Tail(name), Tail(pat))

\* re.match for patterns of literals, escapes \c, the wildcard . and x*
RECURSIVE re_match(_, _)
re_match(pat, name) ==
    IF Len(pat) = 0 THEN TRUE
    ELSE LET esc == pat[1] = "\\" /\ Len(pat) >= 2
             alen == IF esc THEN 2 ELSE 1
             lit == IF esc THEN pat[2] ELSE pat[1]
             any == ~esc /\ pat[1] = "."
             rest == Drop(pat, alen)
             hit == Len(name) > 0 /\ (any \/ name[1] = lit)
         IN  IF Len(rest) > 0 /\ rest[1] = "*"
             THEN re_match(Tail(rest), name) \/ (hit /\ re_match(pat, Tail(name)))
             ELSE hit /\ re_match(rest, Tail(name))

(***************************************************************************)
(* The file system and the files of a namespace directory.                 *)
(***************************************************************************)
UPDATE_INTERVAL == 1
MaxTime == 8
MaxEdits == 2

isdir(path) == path \in dirs
\* os.listdir(path), the .py files of the directory in listing order
listdir(path) == SelectSeq(files, LAMBDA f : f.path = path)

\* a callable a source file registers under `key`
FuncOf(key, site) ==
    IF key = FN
    THEN Func(key, <<Param("ctx", "Context"), Param("a", "int"), Param("b", "str")>>,
              "int", <<"d">>, site)
    ELSE Func(key, <<Param("a", "int"), ParamDef("b", "str", StrV(1))>>, "int", <<"d">>, site)

\* the top-level @register definitions of a file, in the order of its text
Defs(content, site) ==
    CASE content = "fn" -> <<[key |-> FN, func |-> FuncOf(FN, site)]>>
      [] content = "g" -> <<[key |-> G, func |-> FuncOf(G, site)]>>
      [] content = "fn_g" -> <<[key |-> FN, func |-> FuncOf(FN, site)],
                               [key |-> G, func |-> FuncOf(G, site)]>>
      [] content = "inv" -> <<[key |-> G, func |-> Func(G, <<Param("a", "empty")>>,
                                                        "int", <<"d">>, site)]>>
      [] OTHER -> << >>

\* spec.loader.exec_module(py_module) raises nothing: the file's own code
\* runs (content "bad" raises) and every registration in it passes (the
\* one of content "inv" has a parameter without annotation)
ExecOk(content, site) ==
    /\ content # "bad"
    /\ \A i \in DOMAIN Defs(content, site) :
          check_definition(create_module(Defs(content, site)[i].func, 1)) = "ok"


(***************************************************************************)
(* ModuleManager: dictionaries as sequences of items, in insertion order.  *)
(***************************************************************************)
Restrict(f, S) == [x \in DOMAIN f \cap S |-> f[x]]
Stored(nm) == {nm[i].mod : i \in DOMAIN nm}
Keys(nm) == [i \in DOMAIN nm |-> nm[i].id]
HasKey(nm, id) == \E i \in DOMAIN nm : nm[i].id = id
ModOf(nm, id) == nm[CHOOSE i \in DOMAIN nm : nm[i].id = id].mod
Put(d, k, v) == [x \in DOMAIN d \cup {k} |-> IF x = k THEN v ELSE d[x]]

\* the report of one catalog operation; settled tells that a scan has been
\* completed since the file system and the search paths last changed
NewLog ==
    [ran |-> FALSE, done |-> FALSE, executed |-> << >>, failed |-> << >>,
     dups |-> << >>, scanned |-> << >>, derived |-> 0, matches |-> << >>,
     settled |-> FALSE]

\* ModuleManager._format_namespace: lower(), '-' and '.' replaced by '_'
Upper == <<"A", "B", "L", "M", "R", "X">>
Lower == <<"a", "b", "l", "m", "r", "x">>
lower(c) == IF \E i \in DOMAIN Upper : Upper[i] = c
            THEN Lower[CHOOSE i \in DOMAIN Upper : Upper[i] = c] ELSE c
\* _format_namespace without .replace('.', '_')
format_namespace_keeps_dots(src) ==
    [i \in DOMAIN src |-> IF lower(src[i]) = "-" THEN "_" ELSE lower(src[i])]
format_namespace(src) ==
    [i \in DOMAIN src |->
        IF lower(src[i]) = "-" \/ lower(src[i]) = "." THEN "_" ELSE lower(src[i])]

\* ModuleManager._update_namespaces, the loop over settings['SEARCH_PATHS']:
\* module_path is the bound path itself (no namespace config file)
RECURSIVE user_namespaces(_, _)
user_namespaces(sp, i) ==
    IF i > Len(sp) THEN << >>
    ELSE (IF isdir(sp[i].path) THEN <<[ns |-> sp[i].ns, module_path |-> sp[i].path]>>
          ELSE << >>) \o user_namespaces(sp, i + 1)

\* self.namespaces[k] = meta on a dict kept as a sequence of items
SetItem(d, k, path) ==
    IF \E i \in DOMAIN d : d[i].ns = k
    THEN [i \in DOMAIN d |-> IF d[i].ns = k THEN [ns |-> k, module_path |-> path] ELSE d[i]]
    ELSE Append(d, [ns |-> k, module_path |-> path])

\* ModuleManager._update_namespaces
update_namespaces(sp) ==
    LET user == user_namespaces(sp, 1)
        dir_list == {user[i].module_path : i \in DOMAIN user}
    IN  IF CWD \notin dir_list THEN SetItem(user, MAIN, CWD) ELSE user

\* ModuleManager._import_nest_modules_from_py_module: defs are the items of
\* py_module.__dict__; the result is the state and the imported ids
RECURSIVE import_nest_modules_from_py_module(_, _, _, _, _, _)
import_nest_modules_from_py_module(st, namespace, unit, defs, i, ids) ==
    IF i > Len(defs) THEN [st |-> st, ids |-> ids]
    ELSE LET module_id == encode_id(namespace, defs[i].key)
             n == Fresh(DOMAIN st.objs)
             self == create_module(defs[i].func, Fresh(DOMAIN st.ctxs))
         IN  IF startswith(defs[i].key, <<"_">>)
             THEN import_nest_modules_from_py_module(st, namespace, unit, defs, i + 1, ids)
             ELSE IF HasKey(st.nest_modules, module_id)
             THEN import_nest_modules_from_py_module(
                      [st EXCEPT !.log.dups = Append(@, [unit |-> unit, id |-> module_id])],
                      namespace, unit, defs, i + 1, ids)
             ELSE import_nest_modules_from_py_module(
                      [st EXCEPT !.nest_modules = Append(@, [id |-> module_id, mod |-> n]),
                                 !.objs = @ @@ (n :> self),
                                 !.hist = @ @@ (n :> Hist("register", 0, defs[i].func, EmptyDict, << >>)),
                                 !.ctxs = IF "ctx" \in DOMAIN self.params
                                          THEN @ @@ (self.params["ctx"].v :> 0) ELSE @],
                      namespace, unit, defs, i + 1, Append(ids, module_id))

\* ModuleManager._import_nest_modules_from_file for the file f
import_nest_modules_from_file(st, f, namespace) ==
    LET py_module_id == encode_id(namespace, f.stem)
        timestamp == f.mtime
        known == py_module_id \in DOMAIN st.py_modules
        is_reload == known
        site == <<namespace, f.stem, timestamp>>
        st0 == [st EXCEPT !.log.executed = Append(@, [unit |-> py_module_id, mtime |-> timestamp])]
        old == IF is_reload THEN SetOfSeq(st.py_modules[py_module_id].ids) ELSE {}
        st1 == [st0 EXCEPT !.nest_modules = SelectSeq(@, LAMBDA e : e.id \notin old)]
        r == import_nest_modules_from_py_module(st1, namespace, py_module_id,
                                                Defs(f.content, site), 1, << >>)
        st2 == [r.st EXCEPT !.good = Put(@, py_module_id, [mtime |-> timestamp, ids |-> r.ids])]
    IN  IF known /\ timestamp <= st.py_modules[py_module_id].timestamp THEN st
        ELSE IF ~ExecOk(f.content, site)
        THEN [st0 EXCEPT !.log.failed = Append(@, py_module_id)]
        ELSE IF Len(r.ids) > 0
        THEN [st2 EXCEPT !.py_modules = Put(@, py_module_id, [timestamp |-> timestamp, ids |-> r.ids])]
        ELSE st2

\* _import_nest_modules_from_dir that ends at the first file that fails
RECURSIVE import_nest_modules_from_dir_until_failure(_, _, _, _)
import_nest_modules_from_dir_until_failure(st, listing, namespace, i) ==
    IF i > Len(listing) THEN st
    ELSE LET st1 == import_nest_modules_from_file(st, listing[i], namespace)
         IN  IF Len(st1.log.failed) > Len(st.log.failed) THEN st1
             ELSE import_nest_modules_from_dir_until_failure(st1, listing, namespace, i + 1)

\* ModuleManager._import_nest_modules_from_dir: os.listdir(path) in order
RECURSIVE import_nest_modules_from_dir(_, _, _, _)
import_nest_modules_from_dir(st, listing, namespace, i) ==
    IF i > Len(listing) THEN st
    ELSE import_nest_modules_from_dir(import_nest_modules_from_file(st, listing[i], namespace),
                                      listing, namespace, i + 1)

\* importlib.import_module('nest.' + namespace): the first import of a
\* namespace runs NamespaceLoader.create_module, which re-derives the table
import_module(st, namespace) ==
    IF namespace \in st.sys_modules THEN st
    ELSE [st EXCEPT !.namespaces = update_namespaces(search_paths),
                    !.sys_modules = @ \cup {namespace},
                    !.log.derived = @ + 1]

\* ModuleManager._update_modules, the loop over the items of the dict that
\* self.namespaces named when the loop began; os.listdir raises for a
\* directory that is gone
RECURSIVE update_modules_from(_, _, _)
update_modules_from(st, items, i) ==
    IF i > Len(items)
    THEN [st EXCEPT !.update_timestamp = now, !.log.done = TRUE, !.log.settled = TRUE]
    ELSE LET st1 == import_module(st, items[i].ns)
             st2 == [st1 EXCEPT !.log.scanned = Append(@, items[i])]
         IN  IF ~isdir(items[i].module_path) THEN [st1 EXCEPT !.err = "oserror"]
             ELSE update_modules_from(
                      import_nest_modules_from_dir(st2, listdir(items[i].module_path), items[i].ns, 1),
                      items, i + 1)

\* a mutant of update_modules: the throttle compares with >=
update_modules_at_interval(st) ==
    IF now - st.update_timestamp >= UPDATE_INTERVAL
    THEN update_modules_from([st EXCEPT !.log.ran = TRUE], st.namespaces, 1)
    ELSE st

\* ModuleManager._update_modules
update_modules(st) ==
    IF now - st.update_timestamp > UPDATE_INTERVAL
    THEN update_modules_from([st EXCEPT !.log.ran = TRUE], st.namespaces, 1)
    ELSE st

(***************************************************************************)
(* Operations on NestModule instances.                                     *)
(***************************************************************************)
\* the heap after allocating the instance self as object n
Alloc(n, self) ==
    /\ Cardinality(DOMAIN objs \ Stored(nest_modules)) < MaxObjs
    /\ objs' = objs @@ (n :> self)
    /\ ctxs' = IF "ctx" \in DOMAIN self.params /\ self.params["ctx"].v \notin DOMAIN ctxs
               THEN ctxs @@ (self.params["ctx"].v :> 0) ELSE ctxs

\* @register applied to a callable (ignored: the decorator's flag)
Register(f, ignored) ==
    LET self == create_module(f, Fresh(DOMAIN ctxs))
        err == check_definition(self)
        n == Fresh(DOMAIN objs)
    IN  /\ IF ignored
           THEN /\ ret' = Ret("register", 0, f, << >>, EmptyDict, Out("function", "", NoneV, EmptyDict, EmptyDict, 0), 0)
                /\ UNCHANGED <<objs, ctxs, hist>>
           ELSE IF err # "ok"
           THEN /\ ret' = Ret("register", 0, f, << >>, EmptyDict, Raise(err), 0)
                /\ UNCHANGED <<objs, ctxs, hist>>
           ELSE /\ Alloc(n, self)
                /\ hist' = hist @@ (n :> Hist("register", 0, f, EmptyDict, << >>))
                /\ ret' = Ret("register", 0, f, << >>, EmptyDict, Out("entry", "", NoneV, EmptyDict, EmptyDict, 0), n)
        /\ UNCHANGED catalog_vars

\* entry.clone(params)
Clone(o, params) ==
    LET self == clone(objs[o], params, Fresh(DOMAIN ctxs))
        n == Fresh(DOMAIN objs)
    IN  /\ Alloc(n, self)
        /\ hist' = hist @@ (n :> Hist("clone", o, objs[o], params, << >>))
        /\ ret' = Ret("clone", o, objs[o].func, << >>, params, Out("entry", "", NoneV, EmptyDict, EmptyDict, 0), n)
        /\ UNCHANGED catalog_vars

\* entry(*args, **kwargs)
Invoke(o, args, kwargs) ==
    LET out == call(objs[o], args, kwargs)
        self == clone(objs[o], out.params, Fresh(DOMAIN ctxs))
        n == Fresh(DOMAIN objs)
    IN  /\ IF out.kind = "clone"
           THEN /\ Alloc(n, self)
                /\ hist' = hist @@ (n :> Hist("defer", o, objs[o], kwargs, args))
                /\ ret' = Ret("call", o, objs[o].func, args, kwargs, out, n)
           ELSE /\ objs' = objs
                /\ hist' = hist
                /\ ctxs' = IF out.invoked = 1 /\ "ctx" \in DOMAIN out.callargs
                           THEN [ctxs EXCEPT ![out.callargs["ctx"].v] = 1]
                           ELSE ctxs
                /\ ret' = Ret("call", o, objs[o].func, args, kwargs, out, 0)
        /\ UNCHANGED catalog_vars

NoFunc == Func("", << >>, "empty", NoDoc, << >>)
NoRet == Ret("none", 0, NoFunc, << >>, EmptyDict, NoOut, 0)

\* ModuleManager.__init__ with the search paths sp, the directories d and
\* the files fl on disk
ManagerInit(sp, d, fl) ==
    /\ search_paths = sp
    /\ dirs = d
    /\ files = fl
    /\ namespaces = update_namespaces(sp)
    /\ sys_modules = {}
    /\ py_modules = << >>
    /\ nest_modules = << >>
    /\ update_timestamp = 0
    /\ now = UPDATE_INTERVAL + 1
    /\ log = NewLog
    /\ good = << >>
    /\ archive = << >>
    /\ installs = [auto |-> FALSE, meta |-> << >>, runs |-> << >>, alerts |-> << >>]

CatalogInit == ManagerInit(<< >>, {CWD}, << >>)

\* the callables the call operations start from: registered, valid
CallFuncs ==
    { Func("f", <<Param("a", "int"), ParamDef("b", "str", StrV(1))>>, "int", <<"d">>, << >>),
      Func("f", <<Param("a", "int"), ParamDef("b", "str", StrV(1))>>, "str", <<"d">>, << >>),
      Func("f", <<Param("ctx", "Context"), Param("a", "int"), Param("b", "str")>>, "int", <<"d">>, << >>) }

\* no instance yet: the registrations of SpecRegister start here
RegisterInit ==
    /\ objs = << >>
    /\ ctxs = << >>
    /\ hist = << >>
    /\ ret = NoRet
    /\ CatalogInit

RegisterNext == \E f \in Callables, ignored \in BOOLEAN : Register(f, ignored)

SpecRegister == RegisterInit /\ [][RegisterNext]_vars

\* one callable of CallFuncs registered
EntryInit ==
    /\ \E f \in CallFuncs :
          /\ objs = (1 :> create_module(f, 1))
          /\ ctxs = IF "ctx" \in ParamNames(f) THEN (1 :> 0) ELSE << >>
          /\ hist = (1 :> Hist("register", 0, f, EmptyDict, << >>))
    /\ ret = NoRet
    /\ CatalogInit

EntryNext == \E o \in DOMAIN objs : \E c \in Calls : Invoke(o, c[1], c[2])

SpecEntry == EntryInit /\ [][EntryNext]_vars

\* the calls made on clones: a deferred binding, complete and incomplete calls
CloneCalls ==
    { <<(<< >>), merge_dict(DictOf("a", IntV(1)), DictOf("delay_resolve", BoolV(1)))>>,
      <<(<< >>), DictOf("a", IntV(1))>>,
      <<(<< >>), merge_dict(DictOf("a", IntV(1)), DictOf("b", StrV(2)))>>,
      <<(<< >>), EmptyDict>>,
      <<(<<IntV(1)>>), EmptyDict>> }

CloneNext ==
    \/ \E o \in DOMAIN objs : \E p \in CloneParams(objs[o]) : Clone(o, p)
    \/ \E o \in DOMAIN objs : \E c \in CloneCalls : Invoke(o, c[1], c[2])

SpecClone == EntryInit /\ [][CloneNext]_vars

(***************************************************************************)
(* Operations on the catalog.                                              *)
(***************************************************************************)
\* a mutant of getattr: the stored entry itself is returned
getattr_no_clone(nm, key) ==
    LET matches == SelectSeq(Keys(nm), LAMBDA uid : decode_id(uid)[2] = key)
    IN  IF Len(matches) = 0 THEN [err |-> "KeyError", id |-> << >>, warn |-> << >>, cloned |-> FALSE]
        ELSE [err |-> "", id |-> matches[1],
              warn |-> IF Len(matches) > 1 THEN matches ELSE << >>, cloned |-> FALSE]

\* ModuleManager.__getattr__ after the refresh: the entry found or the error
getattr(nm, key) ==
    LET matches == SelectSeq(Keys(nm), LAMBDA uid : decode_id(uid)[2] = key)
    IN  IF Len(matches) = 0 THEN [err |-> "KeyError", id |-> << >>, warn |-> << >>, cloned |-> TRUE]
        ELSE [err |-> "", id |-> matches[1],
              warn |-> IF Len(matches) > 1 THEN matches ELSE << >>, cloned |-> TRUE]

\* ModuleManager.__getitem__ after the refresh, for a str key
getitem(nm, key) ==
    LET exact == IF HasKey(nm, Drop(key, 1)) THEN <<Drop(key, 1)>> ELSE << >>
        regex == SelectSeq(Keys(nm), LAMBDA uid : re_match(Drop(key, 2), uid))
        pat == IF key[1] = "*" THEN key ELSE <<"*">> \o key
        wild == SelectSeq(Keys(nm), LAMBDA uid : fnmatch(uid, pat))
        matches == IF startswith(key, <<"$">>) THEN exact
                   ELSE IF startswith(key, <<"r", "/">>) THEN regex
                   ELSE wild
    IN  IF ~startswith(key, <<"$">>) /\ ~startswith(key, <<"r", "/">>) /\ Len(key) = 0
        THEN [err |-> "IndexError", id |-> << >>, warn |-> << >>, cloned |-> TRUE]
        ELSE IF Len(matches) = 0
        THEN [err |-> "KeyError", id |-> << >>, warn |-> << >>, cloned |-> TRUE]
        ELSE [err |-> "", id |-> matches[1],
              warn |-> IF Len(matches) > 1 THEN matches ELSE << >>, cloned |-> TRUE]

\* the manager's fields and the heap, as the operators above thread them
CatState ==
    [namespaces |-> namespaces, sys_modules |-> sys_modules, py_modules |-> py_modules,
     nest_modules |-> nest_modules, update_timestamp |-> update_timestamp,
     objs |-> objs, ctxs |-> ctxs, hist |-> hist, good |-> good, err |-> "",
     log |-> [NewLog EXCEPT !.settled = log.settled]]

\* the objects the caller holds: every object that the catalog does not store
Held == DOMAIN objs \ Stored(nest_modules)
CtxsOf(os) == {os[o].params["ctx"].v : o \in {x \in DOMAIN os : "ctx" \in DOMAIN os[x].params}}

\* the state after an operation that ended in st; the objects neither stored
\* nor in live are garbage
Commit(st, live) ==
    LET os == Restrict(st.objs, Stored(st.nest_modules) \cup live)
    IN  /\ namespaces' = st.namespaces
        /\ sys_modules' = st.sys_modules
        /\ py_modules' = st.py_modules
        /\ nest_modules' = st.nest_modules
        /\ update_timestamp' = st.update_timestamp
        /\ objs' = os
        /\ hist' = Restrict(st.hist, DOMAIN os)
        /\ ctxs' = Restrict(st.ctxs, CtxsOf(os))
        /\ good' = st.good
        /\ log' = st.log
        /\ UNCHANGED <<search_paths, dirs, files, now, archive, installs>>

\* the end of __getattr__ and __getitem__: the error raised, or
\* self.nest_modules[matches[0]].clone() handed to the caller
Return(op, key, st, found) ==
    IF st.err # ""
    THEN Commit(st, Held) /\ ret' = Ret(op, 0, NoFunc, key, EmptyDict, Raise(st.err), 0)
    ELSE IF found.err # ""
    THEN Commit(st, Held) /\ ret' = Ret(op, 0, NoFunc, key, EmptyDict, Raise(found.err), 0)
    ELSE LET src == ModOf(st.nest_modules, found.id)
             n == IF found.cloned THEN Fresh(DOMAIN st.objs) ELSE src
             self == clone(st.objs[src], EmptyDict, Fresh(DOMAIN st.ctxs))
             st1 == IF found.cloned
                    THEN [st EXCEPT !.objs = @ @@ (n :> self),
                                    !.hist = @ @@ (n :> Hist("lookup", src, st.objs[src], EmptyDict, << >>)),
                                    !.ctxs = IF "ctx" \in DOMAIN self.params
                                             THEN @ @@ (self.params["ctx"].v :> 0) ELSE @]
                    ELSE st
         IN  /\ Commit([st1 EXCEPT !.log.matches = found.warn], {n})
             /\ ret' = Ret(op, src, st.objs[src].func, key, found.id,
                           Out("entry", "", NoneV, EmptyDict, EmptyDict, 0), n)

\* nest.modules.<key>
Get(key) ==
    LET st == update_modules(CatState)
    IN  Return("get", key, st, getattr(st.nest_modules, key))

\* nest.modules[key]
Query(key) ==
    LET st == update_modules(CatState)
    IN  Return("query", key, st, getitem(st.nest_modules, key))

\* iter(nest.modules) and len(nest.modules)
Iterate ==
    LET st == update_modules(CatState)
    IN  /\ Commit(st, Held)
        /\ ret' = Ret("iter", 0, NoFunc, Keys(st.nest_modules), EmptyDict,
                      IF st.err # "" THEN Raise(st.err) ELSE NoOut, 0)
Count ==
    LET st == update_modules(CatState)
    IN  /\ Commit(st, Held)
        /\ ret' = Ret("len", 0, NoFunc, << >>, EmptyDict,
                      IF st.err # "" THEN Raise(st.err)
                      ELSE Out("value", "", IntV(Len(st.nest_modules)), EmptyDict, EmptyDict, 0), 0)

\* os.path.abspath of a path argument: "" and "." are the working directory,
\* a leading "./" and a trailing "/" are dropped
RECURSIVE abspath(_)
abspath(path) ==
    IF path = << >> \/ path = <<".">> THEN CWD
    ELSE IF startswith(path, <<".", "/">>) THEN abspath(Drop(path, 2))
    ELSE IF path[Len(path)] = "/" THEN abspath(SubSeq(path, 1, Len(path) - 1))
    ELSE path

\* _install_namespaces_from_path with the test `path == v` left out
RECURSIVE install_from_name_only(_, _, _, _)
install_from_name_only(sp, path, namespace, i) ==
    IF i > Len(sp) THEN [sp |-> Append(sp, [ns |-> namespace, path |-> path]), alert |-> ""]
    ELSE IF namespace = sp[i].ns THEN [sp |-> sp, alert |-> "bound"]
    ELSE install_from_name_only(sp, path, namespace, i + 1)

\* ModuleManager._install_namespaces_from_path(path, namespace)
RECURSIVE install_from(_, _, _, _)
install_from(sp, path, namespace, i) ==
    IF i > Len(sp) THEN [sp |-> Append(sp, [ns |-> namespace, path |-> path]), alert |-> ""]
    ELSE IF namespace = sp[i].ns THEN [sp |-> sp, alert |-> "bound"]
    ELSE IF path = sp[i].path THEN [sp |-> sp, alert |-> "installed"]
    ELSE install_from(sp, path, namespace, i + 1)
install_namespaces_from_path(sp, path, namespace) ==
    install_from(sp, abspath(path),
                 IF namespace # << >> THEN namespace ELSE format_namespace(abspath(path)), 1)

\* ModuleManager._remove_namespaces_from_path(src)
remove_namespaces_from_path(sp, src) ==
    LET isd == src # << >> /\ isdir(abspath(src))
        path == IF isd THEN abspath(src) ELSE << >>
        namespace == IF isd THEN << >> ELSE src
        hits == {i \in DOMAIN sp : (~isd /\ namespace = sp[i].ns) \/ (isd /\ path = sp[i].path)}
        k == CHOOSE i \in hits : \A j \in hits : i <= j
    IN  IF hits = {} THEN [sp |-> sp, alert |-> IF src = << >> THEN "" ELSE "not installed"]
        ELSE [sp |-> SelectSeq(sp, LAMBDA e : e.ns # sp[k].ns), alert |-> ""]

Install(path, namespace) ==
    LET r == install_namespaces_from_path(search_paths, path, namespace)
    IN  /\ search_paths' = r.sp
        /\ log' = [log EXCEPT !.settled = @ /\ r.sp = search_paths]
        /\ ret' = Ret("install", 0, NoFunc, path, namespace,
                      IF r.alert = "" THEN NoOut ELSE Raise(r.alert), 0)
        /\ UNCHANGED <<objs, ctxs, hist, dirs, files, namespaces, sys_modules, py_modules,
                       nest_modules, update_timestamp, now, good, archive, installs>>

Uninstall(src) ==
    LET r == remove_namespaces_from_path(search_paths, src)
    IN  /\ search_paths' = r.sp
        /\ log' = [log EXCEPT !.settled = @ /\ r.sp = search_paths]
        /\ ret' = Ret("uninstall", 0, NoFunc, src, EmptyDict,
                      IF r.alert = "" THEN NoOut ELSE Raise(r.alert), 0)
        /\ UNCHANGED <<objs, ctxs, hist, dirs, files, namespaces, sys_modules, py_modules,
                       nest_modules, update_timestamp, now, good, archive, installs>>

\* ModuleManager._fetch_nest_modules_from_url for the url of a zip archive
\* whose member names are arch: the names returned and the members extracted
Top(v) == split(v, "/")[1]
fetch_nest_modules_from_url(arch) == {Top(arch[i]) : i \in DOMAIN arch}
members(arch) == SelectSeq(arch, LAMBDA v : \E i \in DOMAIN v : v[i] = "/")
PY == <<".", "p", "y">>
endswith(s, suffix) ==
    Len(s) >= Len(suffix) /\ SubSeq(s, Len(s) - Len(suffix) + 1, Len(s)) = suffix
\* the directories and the .py files that f.extractall(dst, members) creates
ExtractedDirs(arch) == {Top(members(arch)[i]) : i \in DOMAIN members(arch)}
RECURSIVE ExtractedFiles(_, _)
ExtractedFiles(ms, i) ==
    IF i > Len(ms) THEN << >>
    ELSE LET parts == split(ms[i], "/")
         IN  (IF Len(parts) = 2 /\ endswith(parts[2], PY)
              THEN <<[path |-> parts[1], stem |-> SubSeq(parts[2], 1, Len(parts[2]) - 3),
                      content |-> "g", mtime |-> 1]>>
              ELSE << >>) \o ExtractedFiles(ms, i + 1)

\* the orders in which a set may be iterated
Orders(S) == {f \in [1..Cardinality(S) -> S] : \A x \in S : \E i \in DOMAIN f : f[i] = x}

\* settings['NAMESPACE_CONFIG_FILENAME']
NAMESPACE_CONFIG_FILENAME == <<"n", "e", "s", "t", ".", "y", "m", "l">>
\* the fetched names with os.path.exists(meta_path): the archive has put a
\* namespace config file into the directory
ConfigDirs(arch) ==
    {d \in ExtractedDirs(arch) :
        \E i \in DOMAIN arch : arch[i] = d \o <<"/">> \o NAMESPACE_CONFIG_FILENAME}

\* an entry of meta.get('requirements', []): a string, a dict with the keys
\* url and tool, or anything else
Dep(t, v, url, tool) == [t |-> t, v |-> v, url |-> url, tool |-> tool]
PIP == <<"p", "i", "p">>

\* re.match(r'^[a-zA-Z0-9<=>.-]+$', s) for a string s
dep_matches(s) ==
    /\ Len(s) > 0
    /\ \A i \in DOMAIN s :
          s[i] \in {"a", "b", "c", "d", "e", "f", "g", "h", "i", "j", "k", "l", "m",
                    "n", "o", "p", "q", "r", "s", "t", "u", "v", "w", "x", "y", "z",
                    "A", "B", "C", "D", "E", "F", "G", "H", "I", "J", "K", "L", "M",
                    "N", "O", "P", "Q", "R", "S", "T", "U", "V", "W", "X", "Y", "Z",
                    "0", "1", "2", "3", "4", "5", "6", "7", "8", "9",
                    "<", "=", ">", ".", "-"}

\* install_dep(url, tool) inside the loop over dep: the filter and the
\* installer's command line read dep, the entry itself, never url; re.match
\* raises TypeError when dep is not a string; subprocess.check_call fails for
\* the targets in failing, which is alerted
install_dep(dep, url, tool, dirname, failing) ==
    IF dep.t # "str" THEN [runs |-> << >>, failed |-> << >>, exc |-> "TypeError"]
    ELSE IF ~dep_matches(dep.v) THEN [runs |-> << >>, failed |-> << >>, exc |-> ""]
    ELSE [runs |-> <<[tool |-> tool, target |-> dep.v, dirname |-> dirname]>>,
          failed |-> IF dep.v \in failing
                     THEN <<[msg |-> "failed", dep |-> dep, dirname |-> dirname]>>
                     ELSE << >>,
          exc |-> ""]

\* the loop over meta.get('requirements', [])
RECURSIVE install_requirements(_, _, _, _)
install_requirements(deps, i, dirname, failing) ==
    IF i > Len(deps) THEN [runs |-> << >>, failed |-> << >>, exc |-> ""]
    ELSE LET dep == deps[i]
             r == IF dep.t = "str" THEN install_dep(dep, dep.v, PIP, dirname, failing)
                  ELSE IF dep.t = "dict"
                       THEN install_dep(dep, dep.url, dep.tool, dirname, failing)
                  ELSE [runs |-> << >>,
                        failed |-> <<[msg |-> "invalid", dep |-> dep, dirname |-> dirname]>>,
                        exc |-> ""]
         IN  IF r.exc # "" THEN r
             ELSE LET rest == install_requirements(deps, i + 1, dirname, failing)
                  IN  [runs |-> r.runs \o rest.runs, failed |-> r.failed \o rest.failed,
                       exc |-> rest.exc]

\* ModuleManager._install_namespaces_from_url, the loop over the fetched
\* names: the name is installed, its config is read and, with
\* settings['AUTO_INSTALL_REQUIREMENTS'], its requirements are installed; an
\* exception ends the loop
RECURSIVE install_each(_, _, _, _, _, _, _)
install_each(sp, order, namespace, i, meta, auto, failing) ==
    IF i > Len(order)
    THEN [sp |-> sp, alerts |-> << >>, runs |-> << >>, failed |-> << >>, exc |-> ""]
    ELSE LET dirname == order[i]
             r == install_namespaces_from_path(sp, <<".", "/">> \o dirname, namespace)
             deps == IF auto /\ dirname \in DOMAIN meta THEN meta[dirname] ELSE << >>
             q == install_requirements(deps, 1, dirname, failing)
             rest == IF q.exc # ""
                     THEN [sp |-> r.sp, alerts |-> << >>, runs |-> << >>, failed |-> << >>,
                           exc |-> q.exc]
                     ELSE install_each(r.sp, order, namespace, i + 1, meta, auto, failing)
         IN  [sp |-> rest.sp, alerts |-> <<r.alert>> \o rest.alerts,
              runs |-> q.runs \o rest.runs, failed |-> q.failed \o rest.failed,
              exc |-> rest.exc]

\* the requirement lists of the config files and the installer targets
Deps ==
    {Dep("str", <<"p">>, << >>, << >>), Dep("str", <<"q", "_">>, << >>, << >>),
     Dep("dict", << >>, <<"u">>, <<"c">>), Dep("int", << >>, << >>, << >>)}
MaxDeps == 2
Requirements == UNION {[1..n -> Deps] : n \in 0..MaxDeps}
Targets == {<<"p">>}

\* _install_namespaces_from_url(url, namespace) for a zip url; the download
\* succeeds (fetched) or raises URLError; the archive is extracted into a
\* working directory that has none of its directories yet; meta is the
\* requirement list of each extracted config file
InstallFromURL(arch, fetched, namespace) ==
    /\ fetched => ExtractedDirs(arch) \cap dirs = {}
    /\ \E order \in Orders(IF fetched THEN fetch_nest_modules_from_url(arch) ELSE {}) :
       \E meta \in [(IF fetched THEN ConfigDirs(arch) ELSE {}) -> Requirements] :
       \E auto \in BOOLEAN : \E failing \in SUBSET Targets :
          LET r == install_each(search_paths, order, namespace, 1, meta, auto, failing)
              bad == SelectSeq(r.alerts, LAMBDA a : a # "")
          IN  /\ search_paths' = r.sp
              /\ dirs' = IF fetched THEN dirs \cup ExtractedDirs(arch) ELSE dirs
              /\ files' = IF fetched THEN files \o ExtractedFiles(members(arch), 1) ELSE files
              /\ log' = [log EXCEPT !.settled = @ /\ ~fetched]
              /\ installs' = [auto |-> auto, meta |-> meta, runs |-> r.runs,
                              alerts |-> r.failed]
              /\ ret' = Ret("install_url", 0, NoFunc, arch, namespace,
                            IF ~fetched THEN Raise("fetch")
                            ELSE IF r.exc # "" THEN Raise(r.exc)
                            ELSE IF Len(bad) > 0 THEN Raise(bad[1]) ELSE NoOut, 0)
              /\ UNCHANGED <<objs, ctxs, hist, namespaces, sys_modules, py_modules,
                             nest_modules, update_timestamp, now, good, archive>>

(***************************************************************************)
(* The environment: the clock, edits of source files, removed directories. *)
(***************************************************************************)
\* time passes; the clock is read by the throttle of _update_modules only,
\* so ticks beyond the interval since the last scan change no behaviour
Tick ==
    /\ now < MaxTime
    /\ now - update_timestamp <= UPDATE_INTERVAL
    /\ now' = now + 1
    /\ UNCHANGED <<entry_vars, search_paths, dirs, files, namespaces, sys_modules,
                   py_modules, nest_modules, update_timestamp, log, good, archive, installs>>

RECURSIVE Edits(_, _)
Edits(fl, i) == IF i > Len(fl) THEN 0 ELSE (fl[i].mtime - 1) + Edits(fl, i + 1)

\* the i-th file is rewritten with content c: a later modification time
Edit(i, c) ==
    /\ Edits(files, 1) < MaxEdits
    /\ c # files[i].content
    /\ files' = [files EXCEPT ![i].content = c, ![i].mtime = @ + 1]
    /\ log' = [log EXCEPT !.settled = FALSE]
    /\ UNCHANGED <<entry_vars, search_paths, dirs, namespaces, sys_modules,
                   py_modules, nest_modules, update_timestamp, now, good, archive, installs>>

\* a directory other than the working directory is deleted
RemoveDir(path) ==
    /\ path \in dirs \ {CWD}
    /\ dirs' = dirs \ {path}
    /\ log' = [log EXCEPT !.settled = FALSE]
    /\ UNCHANGED <<entry_vars, search_paths, files, namespaces, sys_modules,
                   py_modules, nest_modules, update_timestamp, now, good, archive, installs>>

File(path, stem, content) == [path |-> path, stem |-> stem, content |-> content, mtime |-> 1]

(***************************************************************************)
(* SpecReload: one namespace, main at the working directory, whose files   *)
(* are edited between lookups.                                             *)
(***************************************************************************)
ReloadFiles == <<File(CWD, <<"a">>, "fn"), File(CWD, <<"b">>, "fn"), File(CWD, <<"c">>, "fn")>>
EditContents == {"bad", "none", "fn"}

ReloadInit ==
    /\ objs = << >>
    /\ ctxs = << >>
    /\ hist = << >>
    /\ ret = NoRet
    /\ ManagerInit(<< >>, {CWD}, ReloadFiles)

ReloadNext ==
    \/ Tick
    \/ \E i \in DOMAIN files : \E c \in EditContents : Edit(i, c)
    \/ Get(FN)
    \/ Query(<<"$">> \o encode_id(MAIN, FN))
    \/ Iterate
    \/ Count

SpecReload == ReloadInit /\ [][ReloadNext]_vars

\* time passes, told by a clock whose origin moves forward instead of its
\* reading: the throttle of _update_modules reads now - update_timestamp
\* only and cannot tell the two apart, and the clock never reaches MaxTime
Elapse ==
    /\ now - update_timestamp <= UPDATE_INTERVAL
    /\ update_timestamp' = update_timestamp - 1
    /\ UNCHANGED <<entry_vars, search_paths, dirs, files, namespaces, sys_modules,
                   py_modules, nest_modules, now, log, good, archive, installs>>

\* the files of SpecReload are edited while time never stops and a caller
\* keeps looking the name up, so that refreshes that are not throttled recur
\* for ever; a lookup can always be made, and its weak fairness is written as
\* the recurrence of lookups that it amounts to
SpecReloadFair ==
    /\ ReloadInit
    /\ [][Elapse \/ (\E i \in DOMAIN files : \E c \in EditContents : Edit(i, c)) \/ Get(FN)]_vars
    /\ WF_vars(Elapse)
    /\ []<><<Get(FN)>>_vars

(***************************************************************************)
(* SpecNamespaces: a library directory is installed, removed from the      *)
(* search paths and deleted between lookups; the files do not change.      *)
(***************************************************************************)
LIB == <<"L", "-", "b">>
NamespacesFiles == <<File(CWD, <<"a">>, "fn"), File(LIB, <<"a">>, "fn_g")>>

NamespacesInit ==
    /\ objs = << >>
    /\ ctxs = << >>
    /\ hist = << >>
    /\ ret = NoRet
    /\ ManagerInit(<< >>, {CWD, LIB}, NamespacesFiles)

NamespacesNext ==
    \/ Tick
    \/ \E namespace \in {<< >>, MAIN} : Install(LIB, namespace)
    \/ \E src \in {LIB, format_namespace(LIB)} : Uninstall(src)
    \/ RemoveDir(LIB)
    \/ Get(FN)
    \/ Iterate
    \/ Count

SpecNamespaces == NamespacesInit /\ [][NamespacesNext]_vars

(***************************************************************************)
(* SpecLookup: the library is installed when the manager is constructed;   *)
(* entries are looked up by name and by query and the entries handed out   *)
(* are bound and called.                                                   *)
(***************************************************************************)
GetKeys == {FN, G, <<"h">>}
QueryKeys ==
    { <<"$">> \o encode_id(MAIN, FN), <<"$">> \o FN,
      <<"r", "/", ".", "*", "f", "n">>, <<"r", "/", "m", ".", "*", "\\", ".", "f">>, <<"r", "/", "f", "n">>,
      FN, <<"*", ".", "?">>, <<"l", "_", "b">>, << >> }
EntryCalls ==
    { <<(<< >>), merge_dict(DictOf("a", IntV(1)), DictOf("delay_resolve", BoolV(1)))>>,
      <<(<< >>), merge_dict(DictOf("a", IntV(1)), DictOf("b", StrV(2)))>>,
      <<(<< >>), DictOf("b", StrV(2))>> }

LookupInit ==
    /\ objs = << >>
    /\ ctxs = << >>
    /\ hist = << >>
    /\ ret = NoRet
    /\ ManagerInit(<<[ns |-> format_namespace(LIB), path |-> LIB]>>, {CWD, LIB}, NamespacesFiles)

LookupNext ==
    \/ Tick
    \/ \E key \in GetKeys : Get(key)
    \/ \E key \in QueryKeys : Query(key)
    \/ \E o \in Held \cup ({ret.new} \cap DOMAIN objs) : \E c \in EntryCalls : Invoke(o, c[1], c[2])

SpecLookup == LookupInit /\ [][LookupNext]_vars

(***************************************************************************)
(* SpecSweep: two namespaces, main and the library, whose files are edited *)
(* between refreshes; some versions fail to execute.                       *)
(***************************************************************************)
SweepFiles == <<File(CWD, <<"a">>, "fn"), File(CWD, <<"b">>, "g"), File(LIB, <<"a">>, "fn")>>
SweepContents == {"bad", "inv", "g"}

SweepInit ==
    /\ objs = << >>
    /\ ctxs = << >>
    /\ hist = << >>
    /\ ret = NoRet
    /\ ManagerInit(<<[ns |-> format_namespace(LIB), path |-> LIB]>>, {CWD, LIB}, SweepFiles)

SweepNext ==
    \/ Tick
    \/ \E i \in DOMAIN files : \E c \in SweepContents : Edit(i, c)
    \/ Get(FN)
    \/ Query(<<"$">> \o encode_id(MAIN, G))
    \/ Iterate
    \/ Count

SpecSweep == SweepInit /\ [][SweepNext]_vars

(***************************************************************************)
(* SpecInstall: namespaces are installed from paths and from archives and  *)
(* uninstalled; no lookup is made.                                         *)
(***************************************************************************)
REPO == <<"M", "y", "-", "R", "e", "p", "o", ".", "X">>
XDIR == <<"x">>
InstallPaths == {LIB, <<".", "/">> \o LIB \o <<"/">>, REPO}
InstallNames == {<< >>, <<"x">>, <<"X">>}
UninstallArgs == {LIB, format_namespace(LIB), <<"x">>, REPO, <<"n", "_", "m", "d">>}
Archives ==
    { <<(<<"k", "/", "a", ".", "p", "y">>), (<<"n", ".", "m", "d">>)>>,
      <<(<<"k", "/">>), (<<"k", "/", "a", ".", "p", "y">>)>> }

InstallInit ==
    /\ objs = << >>
    /\ ctxs = << >>
    /\ hist = << >>
    /\ ret = NoRet
    /\ ManagerInit(<< >>, {CWD, LIB, REPO, XDIR}, <<File(CWD, <<"a">>, "fn")>>)

InstallNext ==
    \/ \E path \in InstallPaths : \E namespace \in InstallNames : Install(path, namespace)
    \/ \E src \in UninstallArgs : Uninstall(src)
    \/ \E arch \in Archives : \E fetched \in BOOLEAN : InstallFromURL(arch, fetched, << >>)
    \/ RemoveDir(LIB)

SpecInstall == InstallInit /\ [][InstallNext]_vars

(***************************************************************************)
(* SpecRequirements: archives whose directories hold namespace config      *)
(* files are installed, and namespaces are uninstalled.                    *)
(***************************************************************************)
ConfigOf(d) == d \o <<"/">> \o NAMESPACE_CONFIG_FILENAME
ReqArchives ==
    { <<ConfigOf(<<"k">>), ConfigOf(<<"j">>)>>,
      <<ConfigOf(<<"h">>), (<<"h", "/", "t", ".", "m", "d">>)>> }

ReqInit ==
    /\ objs = << >>
    /\ ctxs = << >>
    /\ hist = << >>
    /\ ret = NoRet
    /\ ManagerInit(<< >>, {CWD}, << >>)

ReqNext ==
    \/ \E arch \in ReqArchives : \E fetched \in BOOLEAN : InstallFromURL(arch, fetched, << >>)
    \/ Uninstall(<<"k">>)

SpecRequirements == ReqInit /\ [][ReqNext]_vars

(***************************************************************************)
(* Packing directories into a zip file.                                    *)
(***************************************************************************)
\* the files of a directory that are not .py files
OtherFiles ==
    <<[path |-> LIB, name |-> <<".", "h">>], [path |-> LIB, name |-> <<"n", ".", "o">>],
      [path |-> LIB, name |-> <<"R">>], [path |-> REPO, name |-> <<"t", ".", "m", "d">>]>>

\* os.walk(src) for a directory without subdirectories: its file names
walk(src) ==
    IF ~isdir(abspath(src)) THEN << >>
    ELSE LET py == listdir(abspath(src))
             other == SelectSeq(OtherFiles, LAMBDA f : f.path = abspath(src))
         IN  [i \in DOMAIN py |-> py[i].stem \o PY] \o [i \in DOMAIN other |-> other[i].name]

\* check_extension of _pack_namespaces
PackExtensions ==
    {<<"p", "y">>, <<"y", "m", "l">>, <<"t", "x", "t">>, <<"m", "d">>, <<"j", "p", "g">>,
     <<"p", "n", "g">>, <<"g", "i", "f">>, <<"i", "p", "y", "n", "b">>}
check_extension(filename) ==
    LET splits == split(filename, ".")
    IN  IF Len(splits) > 1 THEN splits[Len(splits)] \in PackExtensions ELSE TRUE

\* os.path.basename(os.path.normpath(src))
basename_normpath(src) == IF src = <<".">> THEN src ELSE abspath(src)

\* save_list[namespace] = file_list on a dict kept as a sequence of items
SetList(d, k, file_list) ==
    IF \E i \in DOMAIN d : d[i].ns = k
    THEN [i \in DOMAIN d |-> IF d[i].ns = k THEN [ns |-> k, files |-> file_list] ELSE d[i]]
    ELSE Append(d, [ns |-> k, files |-> file_list])

\* ModuleManager._pack_namespaces, the loop over srcs: a listed file is the
\* pair of its directory and its name, a member of the zip file the pair of
\* the namespace and the path relative to src; zipfile.ZipFile(dst, 'w')
\* begins an empty file
RECURSIVE pack_from(_, _, _, _)
pack_from(srcs, i, save_list, zip) ==
    IF i > Len(srcs) THEN [save_list |-> save_list, zip |-> zip]
    ELSE LET namespace == basename_normpath(srcs[i])
             names == SelectSeq(walk(srcs[i]), LAMBDA v : v[1] # "." /\ check_extension(v))
             file_list == [j \in DOMAIN names |-> [dir |-> abspath(srcs[i]), name |-> names[j]]]
         IN  pack_from(srcs, i + 1, SetList(save_list, namespace, file_list),
                       [j \in DOMAIN names |-> [top |-> namespace, name |-> names[j]]])

\* _pack_namespaces(srcs, dst)
Pack(srcs) ==
    LET r == pack_from(srcs, 1, << >>, archive)
    IN  /\ archive' = r.zip
        /\ ret' = Ret("pack", 0, NoFunc, srcs, r.save_list, NoOut, 0)
        /\ UNCHANGED <<objs, ctxs, hist, search_paths, dirs, files, namespaces, sys_modules,
                       py_modules, nest_modules, update_timestamp, now, log, good, installs>>

(***************************************************************************)
(* SpecPack: directories are packed into one zip file; between the packs a *)
(* directory is deleted or an archive is extracted.                        *)
(***************************************************************************)
PackDirs == {LIB, <<".", "/">> \o LIB \o <<"/">>, REPO, <<"k">>}
PackArgs == {<<a>> : a \in PackDirs} \cup {<<a, b>> : a \in PackDirs, b \in PackDirs}
PackFiles == <<File(CWD, <<"a">>, "fn"), File(LIB, <<"a">>, "fn"), File(LIB, <<"b">>, "g")>>

PackInit ==
    /\ objs = << >>
    /\ ctxs = << >>
    /\ hist = << >>
    /\ ret = NoRet
    /\ ManagerInit(<< >>, {CWD, LIB, REPO}, PackFiles)

PackNext ==
    \/ \E srcs \in PackArgs : Pack(srcs)
    \/ \E arch \in Archives : InstallFromURL(arch, TRUE, << >>)
    \/ \E path \in {LIB, REPO} : RemoveDir(path)

SpecPack == PackInit /\ [][PackNext]_vars

(***************************************************************************)
(* Claims about NestModule.                                                *)
(***************************************************************************)
HasCtx(func) == Len(func.params) > 0 /\ func.params[1].k = "ctx" /\ func.params[1].anno = "Context"
Anno(func, k) == func.params[CHOOSE i \in DOMAIN func.params : func.params[i].k = k].anno
Required(func) == {func.params[i].k : i \in {j \in DOMAIN func.params : ~func.params[j].hasdef}}
NonCtx(d) == Without(d, "ctx")
\* every value of d for a parameter of func satisfies that parameter's type
TypeValid(func, d) ==
    \A k \in DOMAIN d \cap ParamNames(func) : d[k].t = Anno(func, k)
\* the arguments a call with the values d passes: d, defaults for the rest
WithDefaults(func, d) ==
    [k \in ParamNames(func) |->
        IF k \in DOMAIN d THEN d[k]
        ELSE func.params[CHOOSE i \in DOMAIN func.params : func.params[i].k = k].def]
\* what an instance shows of its bound parameters: the values, and the
\* state of its context in place of the reference
View(o) ==
    [k \in DOMAIN objs[o].params |->
        IF objs[o].params[k].t = "Context"
        THEN [t |-> "ContextState", v |-> ctxs[objs[o].params[k].v]]
        ELSE objs[o].params[k]]

\* C4 as stated, first half: a clone's bound parameters are exactly the
\* parameters given to clone()
C4_ParamsAreGiven ==
    \A n \in DOMAIN objs : hist[n].op = "clone" => objs[n].params = hist[n].given

\* C4, second half: a step that clones, binds or invokes one instance leaves
\* the bound parameters (and the state of the bound context) of every other
\* instance unchanged, and never changes the bound values of any instance
C4_Frame ==
    \A o \in DOMAIN objs :
        /\ o \in DOMAIN objs'
        /\ objs'[o].params = objs[o].params
        /\ (ret'.op = "call" /\ ret'.obj = o) \/ View(o)' = View(o)

\* C4 as stated (clone independence, the clone's parameters being p1): fails for a
\* callable whose first parameter is the context parameter
C4_CloneIndependence_AsStated == [] C4_ParamsAreGiven /\ [][C4_Frame]_vars

\* C4 amended, first half: a clone's bound parameters are the parameters given,
\* E's own being dropped, except that the context parameter of a callable that
\* declares it first is bound to a new empty Context no other instance holds
C4_ParamsAreGivenOrCtx ==
    \A n \in DOMAIN objs : hist[n].op = "clone" =>
        IF HasCtx(objs[n].func)
        THEN /\ NonCtx(objs[n].params) = NonCtx(hist[n].given)
             /\ "ctx" \in DOMAIN objs[n].params
             /\ objs[n].params["ctx"].t = "Context"
             /\ \A m \in DOMAIN objs \ {n} :
                   "ctx" \in DOMAIN objs[m].params => objs[m].params["ctx"] # objs[n].params["ctx"]
        ELSE objs[n].params = hist[n].given

\* C4 amended: clone independence; the clone's parameters are p1 plus, for a
\* context-taking callable, its own new Context
C4_CloneIndependence == [] C4_ParamsAreGivenOrCtx /\ [][C4_Frame]_vars

\* C4 witness: two clones of one instance of a context-taking callable, made
\* with different parameters, one of them invoked (its context written)
C4_Witness ==
    \E c1 \in DOMAIN objs, c2 \in DOMAIN objs :
        /\ c1 # c2
        /\ hist[c1].op = "clone" /\ hist[c2].op = "clone"
        /\ hist[c1].src = hist[c2].src
        /\ hist[c1].given # hist[c2].given
        /\ hist[c1].given # EmptyDict
        /\ ret.op = "call" /\ ret.obj = c1 /\ ret.out.invoked = 1
        /\ HasCtx(objs[c1].func)
        /\ ctxs[objs[c1].params["ctx"].v] = 1
        /\ ctxs[objs[c2].params["ctx"].v] = 0

\* the first part of a split call: the keywords without the defer flag
FirstPart(n) == Without(hist[n].given, "delay_resolve")

\* the case of C5: the last operation called, with keywords only and no
\* defer flag, an instance that a deferred keyword call on E returned; both
\* parts are disjoint, together with E's bound parameters they are complete
\* and type-valid, and the first part alone left a required parameter missing
C5_Case ==
    /\ ret.op = "call" /\ ret.args = << >> /\ "delay_resolve" \notin DOMAIN ret.kwargs
    /\ hist[ret.obj].op = "defer" /\ hist[ret.obj].args = << >>
    /\ LET E == hist[ret.obj].snap
           first == FirstPart(ret.obj)
           all == merge_dict(E.params, merge_dict(first, ret.kwargs))
       IN  /\ DOMAIN first \cap DOMAIN ret.kwargs = {}
           /\ DOMAIN all \subseteq ParamNames(E.func)
           /\ Required(E.func) \subseteq DOMAIN all
           /\ TypeValid(E.func, all)
           /\ ~(Required(E.func) \subseteq DOMAIN E.params \cup DOMAIN first)

\* C5: partial binding is equivalent to a single call. A deferred call with a
\* first part that leaves a required parameter missing returns an instance
\* without invoking the callable; calling that instance with the second part
\* invokes the callable once with the union of both parts, with the outcome
\* of one strict call on E with all the arguments
C5_PartialBinding ==
    /\ (/\ ret.op = "call" /\ ret.args = << >>
        /\ Truthy(dict_get(ret.kwargs, "delay_resolve"))
        /\ LET E == objs[ret.obj]
               m == merge_dict(E.params, Without(ret.kwargs, "delay_resolve"))
           IN  /\ DOMAIN m \subseteq ParamNames(E.func)
               /\ TypeValid(E.func, m)
               /\ ~(Required(E.func) \subseteq DOMAIN m))
       => /\ ret.out.kind = "clone" /\ ret.out.invoked = 0
          /\ ret.new \in DOMAIN objs
          /\ NonCtx(objs[ret.new].params)
                = NonCtx(merge_dict(objs[ret.obj].params, Without(ret.kwargs, "delay_resolve")))
    /\ C5_Case =>
          LET E == hist[ret.obj].snap
              both == merge_dict(FirstPart(ret.obj), ret.kwargs)
              single == call(E, << >>, both)
          IN  /\ ret.out.invoked = 1
              /\ NonCtx(ret.out.callargs)
                    = NonCtx(WithDefaults(E.func, merge_dict(E.params, both)))
              /\ ret.out.kind = single.kind
              /\ ret.out.err = single.err
              /\ ret.out.val = single.val

\* C5 witness: the second part completed a deferred call and the callable
\* returned a value
C5_Witness == C5_Case /\ ret.out.kind = "value" /\ FirstPart(ret.obj) # EmptyDict

\* the case of C6: a keyword call without the defer flag
C6_Case == ret.op = "call" /\ ret.args = << >> /\ "delay_resolve" \notin DOMAIN ret.kwargs

\* the outcome C6 states for a call whose bound and supplied values are m
C6_Outcome(E, supplied, m) ==
    IF supplied \ ParamNames(E.func) # {}
    THEN ret.out.kind = "error" /\ ret.out.err = "unexpected"
    ELSE IF ~(Required(E.func) \subseteq DOMAIN m)
    THEN ret.out.kind = "error" /\ ret.out.err = "missing"
    ELSE /\ ret.out.invoked = 1
         /\ ret.out.callargs = WithDefaults(E.func, m)

\* C6 as stated: a strict call raises "unexpected" for a supplied key that is no
\* parameter, else "missing" for a required parameter without a value, and
\* else invokes the callable: fails for a value of the wrong type
C6_StrictOutcome_AsStated ==
    C6_Case => C6_Outcome(objs[ret.obj], DOMAIN ret.kwargs,
                          merge_dict(objs[ret.obj].params, ret.kwargs))

\* C6 amended: the same outcome, for the keyword calls in which every value,
\* bound or supplied, satisfies its parameter's type constraint, a bound key
\* counting like a supplied one
C6_StrictOutcome ==
    LET m == merge_dict(objs[ret.obj].params, ret.kwargs)
    IN  (C6_Case /\ TypeValid(objs[ret.obj].func, m))
           => C6_Outcome(objs[ret.obj], DOMAIN m, m)

\* C6 witness: a strict call with only the required parameter invoked the
\* callable with the default of the other
C6_Witness ==
    /\ C6_Case
    /\ DOMAIN ret.kwargs = {"a"}
    /\ ret.out.invoked = 1
    /\ \E i \in DOMAIN ret.func.params :
          /\ ret.func.params[i].hasdef
          /\ ret.func.params[i].k \notin DOMAIN objs[ret.obj].params
          /\ ret.out.callargs[ret.func.params[i].k] = ret.func.params[i].def

\* the faults of a definition that C7 lists
DefinitionFaults(f) ==
    \/ \E i \in DOMAIN f.params : f.params[i].anno = "empty"
    \/ \E i \in DOMAIN f.params :
          f.params[i].hasdef /\ f.params[i].def.t # f.params[i].anno
    \/ f.ret = "empty"
    \/ f.doc = NoDoc
    \/ Len(f.doc) = 0

\* C7: a registration (not ignored) raises a definition error exactly when the
\* callable has an unannotated parameter, a default of the wrong type, no
\* declared return type, or missing or empty documentation; it yields an
\* instance otherwise
C7_DefinitionValidation ==
    (ret.op = "register" /\ ret.out.kind # "function") =>
        /\ (ret.out.kind = "error") <=> DefinitionFaults(ret.func)
        /\ (ret.out.kind = "entry") <=> ~DefinitionFaults(ret.func)

(***************************************************************************)
(* Claims about the catalog.                                               *)
(***************************************************************************)
\* the files of the directory of the n-th namespace of the table
FilesOf(n) == {i \in DOMAIN files : files[i].path = namespaces[n].module_path}
UnitOf(n, i) == encode_id(namespaces[n].ns, files[i].stem)
SiteOf(o) == objs[o].func.site
Lookups == {"get", "query"}
Refreshing == {"get", "query", "iter", "len"}

\* C1: reload safety. For every file whose last successful execution
\* imported the ids S and whose current version, a later one, fails to
\* execute: every id of S is in the flat map and is mapped to the Entry that
\* this last successful execution registered.
C1_ReloadSafety ==
    \A n \in DOMAIN namespaces : \A i \in FilesOf(n) :
        LET u == UnitOf(n, i)
        IN  (/\ u \in DOMAIN good
             /\ files[i].mtime > good[u].mtime
             /\ ~ExecOk(files[i].content, << >>))
            => \A k \in DOMAIN good[u].ids :
                  /\ HasKey(nest_modules, good[u].ids[k])
                  /\ SiteOf(ModOf(nest_modules, good[u].ids[k]))
                        = <<namespaces[n].ns, files[i].stem, good[u].mtime>>

\* the files of the n-th namespace that execute and define key
Producers(n, key) ==
    {i \in FilesOf(n) :
        /\ ExecOk(files[i].content, << >>)
        /\ \E d \in DOMAIN Defs(files[i].content, << >>) : Defs(files[i].content, << >>)[d].key = key}

\* C2: duplicate registration. Once a scan has been completed since the
\* files last changed, a short name that two or more files of one namespace
\* define has exactly one Entry in the flat map, registered by a file of
\* this namespace.
C2_DuplicateRegistration ==
    log.settled =>
        \A n \in DOMAIN namespaces : \A key \in {FN, G} :
            LET id == encode_id(namespaces[n].ns, key)
            IN  Cardinality(Producers(n, key)) >= 2
                => /\ Cardinality({k \in DOMAIN nest_modules : nest_modules[k].id = id}) = 1
                   /\ \E i \in FilesOf(n) :
                         /\ SiteOf(ModOf(nest_modules, id))[1] = namespaces[n].ns
                         /\ SiteOf(ModOf(nest_modules, id))[2] = files[i].stem

\* the stored entries and their contexts are what they were
C3_StoredFrame ==
    \A k \in DOMAIN nest_modules :
        LET o == nest_modules[k].mod
        IN  (k \in DOMAIN nest_modules' /\ nest_modules'[k] = nest_modules[k] /\ hist'[o] = hist[o])
            => /\ objs'[o] = objs[o]
               /\ \A c \in CtxsOf(Restrict(objs, {o})) : ctxs'[c] = ctxs[c]

\* a stored entry has the parameters of its registration: none but its context
C3_StoredUnbound ==
    \A k \in DOMAIN nest_modules : NonCtx(objs[nest_modules[k].mod].params) = EmptyDict

\* a lookup hands out an object that is not stored and shares no context
C3_Distinct ==
    (ret.op \in Lookups /\ ret.out.kind = "entry")
        => /\ ret.new \notin Stored(nest_modules)
           /\ ret.new # ret.obj
           /\ CtxsOf(Restrict(objs, {ret.new})) \cap CtxsOf(Restrict(objs, Stored(nest_modules))) = {}

\* C3: catalog lookups never expose or alter stored binding state. No step
\* (a lookup, a deferred or strict call of an entry handed out) changes a
\* stored Entry or the state of its context, a stored Entry has no bound
\* parameter, and every lookup returns an object distinct from the stored
\* one, with a context of its own.
C3_LookupsReturnClones == [] (C3_Distinct /\ C3_StoredUnbound) /\ [][C3_StoredFrame]_vars

\* an entry handed out by a lookup was bound by a deferred call and the
\* result was called: the function ran with a context that is not the
\* stored entry's, which is untouched
C3_Witness ==
    /\ ret.op = "call" /\ ret.out.invoked = 1
    /\ hist[ret.obj].op = "defer"
    /\ hist[hist[ret.obj].src].op = "lookup"
    /\ "ctx" \in DOMAIN ret.out.callargs
    /\ ctxs[ret.out.callargs["ctx"].v] = 1
    /\ \A c \in CtxsOf(Restrict(objs, Stored(nest_modules))) : ctxs[c] = 0

\* the ids of the flat map that the lookup of key matches, in map order
C8_Matches(op, key) ==
    LET ids == Keys(nest_modules)
        pat == IF Len(key) > 0 /\ key[1] = "*" THEN key ELSE <<"*">> \o key
    IN  IF op = "get" THEN SelectSeq(ids, LAMBDA id : decode_id(id)[Len(decode_id(id))] = key)
        ELSE IF startswith(key, <<"$">>) THEN SelectSeq(ids, LAMBDA id : id = Drop(key, 1))
        ELSE IF startswith(key, <<"r", "/">>) THEN SelectSeq(ids, LAMBDA id : re_match(Drop(key, 2), id))
        ELSE SelectSeq(ids, LAMBDA id : fnmatch(id, pat))

\* C8: lookup resolution policy. After Get(name) or Query(key), with M the
\* ids of the flat map that match (the empty key is the glob *): M empty
\* gives a lookup error; otherwise the result is a clone of the Entry of the
\* first id of M, and the ambiguity warning lists M exactly when M has more
\* than one id.
C8_LookupResolution ==
    ret.op \in Lookups =>
        LET M == C8_Matches(ret.op, ret.args)
        IN  IF Len(M) = 0 THEN ret.out.kind = "error" /\ ret.out.err \in {"KeyError", "IndexError"}
            ELSE /\ ret.out.kind = "entry"
                 /\ hist[ret.new].op = "lookup"
                 /\ hist[ret.new].src = ModOf(nest_modules, M[1])
                 /\ objs[ret.new].func = objs[ModOf(nest_modules, M[1])].func
                 /\ log.matches = IF Len(M) > 1 THEN M ELSE << >>

\* C9: refresh re-derives the Namespace Table. Once a scan has been
\* completed since the search paths and the directories last changed, the
\* table is the persisted bindings whose path exists plus the namespace
\* main of the working directory; a scan lists the directory of each.
C9_RefreshDerivesTable ==
    log.settled =>
        /\ SetOfSeq(namespaces)
             = {[ns |-> search_paths[i].ns, module_path |-> search_paths[i].path] :
                    i \in {j \in DOMAIN search_paths : isdir(search_paths[j].path)}}
               \cup {[ns |-> MAIN, module_path |-> CWD]}
        /\ (log.ran /\ log.done) => SetOfSeq(namespaces) \subseteq SetOfSeq(log.scanned)

\* a step of Get, Query, Iterate or Count
C10_RefreshStep == ret'.op \in Refreshing /\ UNCHANGED <<now, files, dirs, search_paths>>

\* the files of the table's directories whose version is not the one loaded
C10_Stale ==
    {i \in DOMAIN files : \E n \in DOMAIN namespaces :
        /\ i \in FilesOf(n)
        /\ UnitOf(n, i) \in DOMAIN py_modules
        /\ py_modules[UnitOf(n, i)].timestamp < files[i].mtime}

\* C10: refresh throttling. An operation no more than the interval after the
\* last completed scan executes no file and leaves the unit map and the flat
\* map as they are, whatever changed on disk; an operation more than the
\* interval after it scans: each directory of the table is listed, each
\* changed file is executed, and the scan's time is recorded.
C10_Throttle ==
    [][C10_RefreshStep =>
         IF now - update_timestamp <= UPDATE_INTERVAL
         THEN /\ log'.executed = << >>
              /\ ~log'.ran
              /\ py_modules' = py_modules
              /\ nest_modules' = nest_modules
              /\ update_timestamp' = update_timestamp
         ELSE /\ log'.ran
              /\ log'.done => /\ update_timestamp' = now
                              /\ SetOfSeq(namespaces) \subseteq SetOfSeq(log'.scanned)
                              /\ \A i \in C10_Stale : \E e \in SetOfSeq(log'.executed) :
                                    e.mtime = files[i].mtime /\ \E n \in DOMAIN namespaces :
                                        i \in FilesOf(n) /\ e.unit = UnitOf(n, i)]_vars

\* a lookup within the interval of the last scan ran nothing although a
\* loaded file has changed since
C10_Witness ==
    /\ ret.op \in Refreshing
    /\ ~log.ran
    /\ update_timestamp > 0
    /\ now - update_timestamp <= UPDATE_INTERVAL
    /\ C10_Stale # {}


(***************************************************************************)
(* Claims about the search paths.                                          *)
(***************************************************************************)
\* a step of _install_namespaces_from_path, whose call is kept in ret
InstallStep == ret'.op = "install" /\ UNCHANGED <<dirs, files, now>>
\* the name an install binds: the one given, or the one made of the path
NameOf(path, namespace) ==
    IF namespace # << >> THEN namespace ELSE format_namespace(abspath(path))
Bound(sp, n, p) == \E i \in DOMAIN sp : sp[i].ns = n \/ sp[i].path = p
OneToOne(sp) ==
    \A i, j \in DOMAIN sp : i # j => sp[i].ns # sp[j].ns /\ sp[i].path # sp[j].path

\* C11: an install from a path whose name or whose absolute path is already
\* bound leaves the persisted bindings as they are and warns; any other
\* install adds exactly the binding name -> absolute path and changes no
\* other binding; so no two names are ever bound to one path.
C11_InstallFromPath ==
    /\ [][InstallStep =>
            LET p == abspath(ret'.args)
                n == NameOf(ret'.args, ret'.kwargs)
            IN  IF Bound(search_paths, n, p)
                THEN search_paths' = search_paths /\ ret'.out.kind = "error"
                ELSE /\ search_paths' = Append(search_paths, [ns |-> n, path |-> p])
                     /\ ret'.out.kind = "none"]_vars
    /\ [] OneToOne(search_paths)
\* an install was refused for its path while two namespaces are bound
C11_Witness ==
    /\ ret.op = "install" /\ ret.out.err = "installed"
    /\ Len(search_paths) >= 2

\* a step of _remove_namespaces_from_path, whose argument is kept in ret
UninstallStep == ret'.op = "uninstall" /\ UNCHANGED <<dirs, files, now>>
RemoveAt(sp, i) == SubSeq(sp, 1, i - 1) \o SubSeq(sp, i + 1, Len(sp))

\* C12: an uninstall whose argument equals a bound namespace name or a bound
\* path removes exactly that binding and changes no other, whether or not
\* the argument names an existing directory; an argument that matches no
\* binding leaves the persisted bindings as they are and warns.
C12_Uninstall ==
    [][UninstallStep =>
        LET x == ret'.args
            hit == {i \in DOMAIN search_paths :
                       search_paths[i].ns = x \/ search_paths[i].path = x}
        IN  IF hit # {}
            THEN \E i \in hit : search_paths' = RemoveAt(search_paths, i)
            ELSE search_paths' = search_paths /\ ret'.out.kind = "error"]_vars

\* the names that match ^[a-z][a-z0-9_]*$
LowerLetters ==
    {"a", "b", "c", "d", "e", "f", "g", "h", "i", "j", "k", "l", "m",
     "n", "o", "p", "q", "r", "s", "t", "u", "v", "w", "x", "y", "z"}
Digits == {"0", "1", "2", "3", "4", "5", "6", "7", "8", "9"}
ValidName(n) ==
    /\ Len(n) > 0
    /\ n[1] \in LowerLetters
    /\ \A i \in DOMAIN n : n[i] \in LowerLetters \cup Digits \cup {"_"}

\* C13: every namespace name in the persisted bindings and in the namespace
\* table matches ^[a-z][a-z0-9_]*$, whatever installs and uninstalls were made.
C13_ValidNames ==
    /\ \A i \in DOMAIN search_paths : ValidName(search_paths[i].ns)
    /\ \A i \in DOMAIN namespaces : ValidName(namespaces[i].ns)

\* the lower-case form of a character
UpperCase ==
    <<"A", "B", "C", "D", "E", "F", "G", "H", "I", "J", "K", "L", "M",
      "N", "O", "P", "Q", "R", "S", "T", "U", "V", "W", "X", "Y", "Z">>
LowerCase ==
    <<"a", "b", "c", "d", "e", "f", "g", "h", "i", "j", "k", "l", "m",
      "n", "o", "p", "q", "r", "s", "t", "u", "v", "w", "x", "y", "z">>
ToLower(c) ==
    IF \E i \in DOMAIN UpperCase : UpperCase[i] = c
    THEN LowerCase[CHOOSE i \in DOMAIN UpperCase : UpperCase[i] = c] ELSE c
\* a directory name lowercased, with every '-' and '.' replaced by '_'
Normalized(d) ==
    [i \in DOMAIN d |-> IF d[i] \in {"-", "."} THEN "_" ELSE ToLower(d[i])]

\* C14: an install from a path that is given no namespace name binds the
\* directory name lowercased with every '-' and '.' replaced by '_' (the
\* directory My-Repo.X is bound as my_repo_x), and normalizing the bound
\* name again returns it unchanged.
C14_Normalization ==
    [][(InstallStep /\ ret'.kwargs = << >> /\ ret'.out.kind = "none") =>
        LET d == abspath(ret'.args)
            n == search_paths'[Len(search_paths')].ns
        IN  /\ n = Normalized(d)
            /\ d = REPO => n = <<"m", "y", "_", "r", "e", "p", "o", "_", "x">>
            /\ format_namespace(n) = n]_vars
\* the directory My-Repo.X was installed under the name made of its path
C14_Witness ==
    /\ ret.op = "install" /\ ret.kwargs = << >> /\ ret.out.kind = "none"
    /\ ret.args = REPO
    /\ \E i \in DOMAIN search_paths :
          search_paths[i].path = REPO /\ search_paths[i].ns = Normalized(REPO)

\* the namespace table was derived from the present persisted bindings: by
\* the constructor, or by the refreshing operation that has just returned
JustDerived == ret = NoRet \/ (ret.op \in Refreshing /\ log.derived > 0)

\* C15: after a derivation of the namespace table, the table holds main
\* bound to the working directory if and only if the working directory is
\* not the bound path of a persisted namespace, and every persisted binding
\* (of an existing directory) is in the table as it was persisted: the
\* implicit main replaces none.
C15_ImplicitMain ==
    JustDerived =>
        /\ (\E i \in DOMAIN namespaces :
               namespaces[i].ns = MAIN /\ namespaces[i].module_path = CWD)
           <=> ~(\E j \in DOMAIN search_paths : search_paths[j].path = CWD)
        /\ \A j \in DOMAIN search_paths :
              isdir(search_paths[j].path) =>
                 \E i \in DOMAIN namespaces :
                    /\ namespaces[i].ns = search_paths[j].ns
                    /\ namespaces[i].module_path = search_paths[j].path

\* the version of a file, as the sweep reports an execution of it
VersionOf(n, i) == [unit |-> UnitOf(n, i), mtime |-> files[i].mtime]
\* the refreshing operation that has just returned ran a sweep to its end
\* and no file has changed since
JustSwept == ret.op \in Refreshing /\ log.ran /\ log.settled

ListedFor(ns) ==
    LET d == ret.kwargs
        hit == {i \in DOMAIN d : d[i].ns = ns}
    IN  IF hit = {} THEN {}
        ELSE LET l == d[CHOOSE i \in hit : TRUE].files
             IN  {l[j].name : j \in DOMAIN l}
\* the names stored in the zip file under a directory name
StoredUnder(ns) == {archive[j].name : j \in {k \in DOMAIN archive : archive[k].top = ns}}

\* C17: after a pack of one or more source paths the zip file holds, for
\* every source path, exactly the files of the list returned for that path,
\* each stored under the directory name of that path, and nothing else.
C17_PackWritesWhatItReports ==
    ret.op = "pack" =>
        /\ \A i \in DOMAIN ret.args :
              StoredUnder(basename_normpath(ret.args[i]))
                 = ListedFor(basename_normpath(ret.args[i]))
        /\ \A j \in DOMAIN archive :
              \E i \in DOMAIN ret.args : archive[j].top = basename_normpath(ret.args[i])

\* a step of _install_namespaces_from_url that fetched and extracted its
\* archive, whose member names are kept in ret
URLStep == ret'.op = "install_url" /\ dirs' # dirs /\ dirs \subseteq dirs'
\* the top-level directories of an archive
TopDirs(arch) ==
    {Top(arch[i]) : i \in {j \in DOMAIN arch : \E c \in DOMAIN arch[j] : arch[j][c] = "/"}}

\* C18: an install from the url of an archive that is downloaded and
\* extracted adds one binding for each top-level directory of the archive
\* (none of which is bound yet) and no other binding; a file at the root of
\* the archive produces none.
C18_ArchiveNamespaces ==
    [][(/\ URLStep
        /\ \A d \in TopDirs(ret'.args) : ~Bound(search_paths, format_namespace(d), d)) =>
        LET added == SubSeq(search_paths', Len(search_paths) + 1, Len(search_paths'))
        IN  /\ SubSeq(search_paths', 1, Len(search_paths)) = search_paths
            /\ {added[i].path : i \in DOMAIN added} = TopDirs(ret'.args)
            /\ Len(added) = Cardinality(TopDirs(ret'.args))]_vars

(***************************************************************************)
(* Claims about reloads.                                                   *)
(***************************************************************************)
\* the ids that the present version of a file defines
DefinedIds(n, i) ==
    {encode_id(namespaces[n].ns, Defs(files[i].content, << >>)[d].key) :
        d \in DOMAIN Defs(files[i].content, << >>)}
\* the site of the entry that the flat map holds under an id after the step
SiteAfter(id) == objs'[ModOf(nest_modules', id)].func.site

\* C19: a sweep that executes with success a later version of a file that
\* was executed with success before leaves, whatever the version defines:
\* no entry of an older version of the unit in the flat map, every id the
\* version defines mapped to its entry or to the entry of another unit, and
\* the unit's record holding the new modification time and the ids this
\* execution produced.
C19_ReloadReplaces ==
    [][\A n \in DOMAIN namespaces : \A i \in FilesOf(n) :
          LET u == UnitOf(n, i)
              new == <<namespaces[n].ns, files[i].stem, files[i].mtime>>
          IN  (/\ u \in DOMAIN good /\ u \in DOMAIN good'
               /\ good'[u].mtime > good[u].mtime
               /\ good'[u].mtime = files'[i].mtime
               /\ log'.done)
              => /\ \A k \in DOMAIN nest_modules' :
                       LET site == objs'[nest_modules'[k].mod].func.site
                       IN  (site[1] = new[1] /\ site[2] = new[2])
                           => site = new /\ nest_modules'[k].id \in DefinedIds(n, i)
                 /\ \A id \in DefinedIds(n, i) :
                       /\ HasKey(nest_modules', id)
                       /\ (SiteAfter(id) = new \/ SiteAfter(id)[2] # new[2])
                 /\ u \in DOMAIN py_modules'
                 /\ py_modules'[u].timestamp = files[i].mtime
                 /\ SetOfSeq(py_modules'[u].ids) = SetOfSeq(good'[u].ids)]_vars

\* C20: a refresh that runs a sweep does not execute a file whose present
\* version an earlier refresh has executed with success, whatever number of
\* entries that execution produced, and leaves the unit's record and the
\* entries the unit registered in the flat map as they are.
C20_UnchangedSkipped ==
    [][(C10_RefreshStep /\ log'.ran) =>
        \A n \in DOMAIN namespaces : \A i \in FilesOf(n) :
            LET u == UnitOf(n, i)
            IN  (u \in DOMAIN good /\ good[u].mtime = files[i].mtime)
                => /\ VersionOf(n, i) \notin SetOfSeq(log'.executed)
                   /\ (u \in DOMAIN py_modules) = (u \in DOMAIN py_modules')
                   /\ u \in DOMAIN py_modules => py_modules'[u] = py_modules[u]
                   /\ \A k \in DOMAIN nest_modules :
                         (/\ SiteOf(nest_modules[k].mod)[1] = namespaces[n].ns
                          /\ SiteOf(nest_modules[k].mod)[2] = files[i].stem)
                         => \E j \in DOMAIN nest_modules' : nest_modules'[j] = nest_modules[k]]_vars

(***************************************************************************)
(* Claims about deferred and positional calls.                             *)
(***************************************************************************)
\* the values a keyword call merges: the bound ones, then the supplied ones
Merged == merge_dict(NonCtx(objs[ret.obj].params), ret.kwargs)
KeywordCall == ret.op = "call" /\ ret.args = << >>

\* C21: the instance a deferred call returns carries every merged value, the
\* defer flag among them; a keyword call on such an instance that still
\* leaves a required parameter missing returns a further instance instead of
\* raising, and the callable is invoked only by a call that leaves no
\* required parameter missing.
C21_MultiStepDeferred ==
    /\ (KeywordCall /\ ret.out.kind = "clone") =>
          /\ "delay_resolve" \in DOMAIN objs[ret.new].params
          /\ \A k \in DOMAIN Merged :
                k \in DOMAIN objs[ret.new].params /\ objs[ret.new].params[k] = Merged[k]
    /\ (/\ KeywordCall
        /\ hist[ret.obj].op = "defer"
        /\ LET m == Without(Merged, "delay_resolve")
           IN  /\ DOMAIN m \subseteq ParamNames(ret.func)
               /\ TypeValid(ret.func, m)
               /\ ~(Required(ret.func) \subseteq DOMAIN m \cup {"ctx"}))
       => ret.out.kind = "clone"
    /\ (KeywordCall /\ ret.out.invoked = 1) =>
          Required(ret.func) \subseteq DOMAIN Merged \cup {"ctx"}

\* a value that is given (not None) for a parameter and is not of its type
Mistyped(func, d) ==
    {k \in DOMAIN d \cap ParamNames(func) : d[k] # NoneV /\ d[k].t # Anno(func, k)}

\* C22: a keyword call, strict or deferred, without unexpected names, in
\* which a bound or supplied value is not of its parameter's type, raises the
\* type error; the callable is not invoked and no instance is returned, also
\* when another required parameter is missing.
C22_TypeValidation ==
    (/\ KeywordCall
     /\ LET m == Without(merge_dict(objs[ret.obj].params, ret.kwargs), "delay_resolve")
        IN  DOMAIN m \subseteq ParamNames(ret.func) /\ Mistyped(ret.func, m) # {})
    => /\ ret.out.kind = "error" /\ ret.out.err = "type"
       /\ ret.out.invoked = 0
       /\ ret.new = 0

\* the parameters, in declared order, that are neither bound nor defaulted
Unbound(o) ==
    LET sel == SelectSeq(ret.func.params,
                         LAMBDA d : d.k \notin DOMAIN objs[o].params /\ ~d.hasdef)
    IN  [i \in 1..Len(sel) |-> sel[i].k]
\* the keywords a positional call stands for: the i-th argument for P[i]
AsKeywords(P, args, kwargs) ==
    merge_dict(kwargs, [k \in {P[i] : i \in 1..Len(args)} |->
                           args[CHOOSE i \in 1..Len(args) : P[i] = k]])

\* C23: a call with k positional arguments, 1 <= k <= |P|, has the outcome of
\* the keyword call that gives the i-th argument to the i-th parameter of P;
\* if one of these k names is also a keyword of the call, the call raises the
\* duplicate binding error and the callable is not invoked.
C23_PositionalMapping ==
    (ret.op = "call" /\ Len(ret.args) >= 1 /\ Len(ret.args) <= Len(Unbound(ret.obj))) =>
        LET P == Unbound(ret.obj)
        IN  IF \E i \in 1..Len(ret.args) : P[i] \in DOMAIN ret.kwargs
            THEN ret.out.kind = "error" /\ ret.out.err = "duplicate" /\ ret.out.invoked = 0
            ELSE ret.out = call(objs[ret.obj], << >>, AsKeywords(P, ret.args, ret.kwargs))

(***************************************************************************)
(* Claims about the requirements of installed namespaces.                  *)
(***************************************************************************)
\* the installer run that a declared dependency asks for
RunFor(dep, d) ==
    IF dep.t = "str" THEN [tool |-> PIP, target |-> dep.v, dirname |-> d]
    ELSE [tool |-> dep.tool, target |-> dep.url, dirname |-> d]
Declared(d) == {i \in DOMAIN installs.meta[d] : installs.meta[d][i].t \in {"str", "dict"}}

\* C24: after an install from a url with auto-install enabled, the installer
\* has run once for every dependency that the config of an installed
\* namespace declares, with the default tool and the string or with the
\* named tool and the url, and no dependency has ended the call: the
\* dependencies and the namespaces after it are processed too.
C24_DependencySweep ==
    (ret.op = "install_url" /\ installs.auto) =>
        /\ ret.out.err # "TypeError"
        /\ \A d \in DOMAIN installs.meta : \A i \in Declared(d) :
              LET e == RunFor(installs.meta[d][i], d)
              IN  Cardinality({j \in DOMAIN installs.runs : installs.runs[j] = e})
                  = Cardinality({j \in Declared(d) : RunFor(installs.meta[d][j], d) = e})

\* C25: a refresh removes an entry from the flat map only if its sweep
\* executes the unit the entry was harvested from; the entry of a unit that
\* the sweep does not execute stays, also when another unit produced the same
\* id before.
C25_ReloadOwnership ==
    [][C10_RefreshStep =>
        \A k \in DOMAIN nest_modules :
            LET site == SiteOf(nest_modules[k].mod)
            IN  (\A j \in DOMAIN nest_modules' : nest_modules'[j] # nest_modules[k])
                => \E x \in DOMAIN log'.executed :
                      log'.executed[x].unit = encode_id(site[1], site[2])]_vars

\* the i-th file is the only file of its namespace whose present version
\* executes and defines fn
OnlyProducer(i) ==
    \E n \in DOMAIN namespaces : i \in FilesOf(n) /\ Producers(n, FN) = {i}
\* the flat map holds the id of fn mapped to an entry of the i-th file
Registered(i) ==
    \E n \in DOMAIN namespaces :
        /\ i \in FilesOf(n)
        /\ HasKey(nest_modules, encode_id(namespaces[n].ns, FN))
        /\ SiteOf(ModOf(nest_modules, encode_id(namespaces[n].ns, FN)))[2] = files[i].stem

\* C26: while refreshes that are not throttled recur, a file that is the
\* only one of its namespace to define fn, and executes, has its entry
\* registered under the id of fn in the end, unless the files are edited so
\* that it is no longer the only one.
C26_DroppedDuplicatesRegister ==
    \A i \in DOMAIN ReloadFiles :
        OnlyProducer(i) ~> (Registered(i) \/ ~OnlyProducer(i))

\* C27: when a refreshing operation has run a sweep and neither the search
\* paths nor the file system have changed since, the namespace of every id
\* of the flat map is a namespace of the table: no entry of an uninstalled
\* namespace, or of one whose directory is gone, is left to be looked up.
C27_NoAbsentNamespaces ==
    JustSwept =>
        \A k \in DOMAIN nest_modules :
            \E n \in DOMAIN namespaces :
                namespaces[n].ns = SiteOf(nest_modules[k].mod)[1]

====
